---- MODULE Spec2Model ----
(***************************************************************************)
(* ci-dashboard: one run of src/main.rs.  `main` resolves a CircleCI token, *)
(* issues one GET for the recent builds, decodes them, opens the           *)
(* repository of the working directory, selects one build per local branch *)
(* (find_builds) and prints one line per selected build (print_builds).    *)
(***************************************************************************)
EXTENDS FiniteSets, Integers, Sequences, TLC

VARIABLES
    pc,               \* position of main: the statement that runs next
    argv,             \* the command line, after the program name
    args_token,       \* args.token, once the command line is parsed
    env_token,        \* what env::var("CIRCLECI_TOKEN") finds
    overflow_checks,  \* the build profile: TRUE panics on i32 overflow, FALSE wraps
    cwd,              \* the working directory as a git repository, on disk
    invoked_in_repo,  \* whether cwd held a repository when the run started
    token,            \* the resolved token
    requests,         \* number of HTTP requests issued so far
    resp,             \* the reqwest::Response in hand
    builds,           \* Vec<Build> handed to find_builds
    sorted_desc,      \* find_builds: builds after the sort of line 72
    deduped,          \* find_builds: the accumulator of the fold of lines 74-81
    selection,        \* Vec<Build> returned by find_builds
    length,           \* print_builds: the column width
    current_branch,   \* print_builds: current_branch_name
    cursor,           \* print_builds: index of the next build of the for loop
    stdout,           \* the lines printed so far
    stderr,           \* the diagnostic of the panic or error that ended the run
    exit_code         \* the exit status of the process, once it has ended

vars == <<pc, argv, args_token, env_token, overflow_checks, cwd, invoked_in_repo, token,
          requests, resp, builds, sorted_desc, deduped, selection, length,
          current_branch, cursor, stdout, stderr, exit_code>>

---------------------------------------------------------------------------
(* Bounds of the model *)

\* longest response body of a run under Spec
MaxResponse == 2
\* longest list handed to find_builds under SpecSelect
MaxBuilds == 3

---------------------------------------------------------------------------
(* Values *)

\* Option::None of a string
None == "None"
\* Option::None and Option::Some of the other types; Result likewise
Nothing == <<>>
Some(x) == <<x>>

\* i32::MIN, written so that no literal leaves the 32-bit range
I32Min == (-2147483647) - 1

\* enum Outcome
Outcomes ==
    {"Retried", "Canceled", "InfrastructureFail", "Timedout", "NotRun", "Running",
     "Failed", "Queued", "Scheduled", "NotRunning", "NoTests", "Fixed", "Success"}

\* branch names a repository of the model may hold
LocalNames == {"dev", "main"}
\* branch names a build of the model may carry
BranchNames == LocalNames \cup {"ghost"}
\* build numbers of the model: the least i32, and two ordinary numbers
BuildNums == {I32Min, 5, 9}

\* struct TryBuild
TryBuild(B, N, O) == [branch : B \cup {None}, build_num : N, outcome : O \cup {None}]
\* struct Build
Build(B, N, O) == [branch : B, build_num : N, outcome : O \cup {None}]

\* the sequences over S of length at most n
SeqUpTo(S, n) == UNION {[1..k -> S] : k \in 0..n}

\* TryBuild::into_build: None when the branch is missing
into_build(t) ==
    IF t.branch = None THEN Nothing
    ELSE Some([branch |-> t.branch, build_num |-> t.build_num, outcome |-> t.outcome])

\* lines 42-45: into_iter().filter_map(TryBuild::into_build).collect()
RECURSIVE filter_map_into_build(_)
filter_map_into_build(s) ==
    IF s = <<>> THEN <<>>
    ELSE LET r == into_build(Head(s))
         IN (IF r = Nothing THEN <<>> ELSE <<r[1]>>) \o filter_map_into_build(Tail(s))

---------------------------------------------------------------------------
(* The repository *)

\* A working directory: whether it holds a repository, whether one can be
\* created in it, the local branches, whether HEAD resolves to a commit, and
\* the local branches whose target is the commit of HEAD.
WorkDirs ==
    {[exists |-> FALSE, writable |-> w, branches |-> {}, head_born |-> FALSE, at_head |-> {}]
        : w \in BOOLEAN}
    \cup
    {[exists |-> TRUE, writable |-> TRUE, branches |-> b, head_born |-> h, at_head |-> a]
        : b \in SUBSET LocalNames, h \in BOOLEAN, a \in SUBSET LocalNames}

WorkDir(d) ==
    /\ d \in WorkDirs
    /\ d.at_head \subseteq d.branches
    /\ (~d.head_born => d.at_head = {})

\* Repository::init("."): opens the repository of the directory, and creates an
\* empty one (no branch, HEAD unborn) where there is none; Err where it cannot.
RepositoryInit(d) ==
    IF d.exists THEN Some(d)
    ELSE IF d.writable
         THEN Some([exists |-> TRUE, writable |-> TRUE, branches |-> {},
                    head_born |-> FALSE, at_head |-> {}])
         ELSE Nothing

\* repo.find_branch(name, BranchType::Local).is_ok()
find_branch_is_ok(d, name) == name \in d.branches

\* current_branch_name: Err when repo.head() fails (HEAD unborn), Ok(None) when
\* no local branch equals the head reference, else Ok(Some(name)) of the first
\* such branch the iterator yields.
current_branch_name(d) ==
    IF ~d.head_born THEN {"Err"}
    ELSE IF d.at_head = {} THEN {None}
    ELSE d.at_head

---------------------------------------------------------------------------
(* find_builds *)

\* the key of line 72, -build.build_num on i32, as the release profile
\* computes it: negation modulo 2^32, which maps i32::MIN to itself
neg_key(b) == IF b.build_num = I32Min THEN I32Min ELSE -b.build_num

\* the key of line 86
num_key(b) == b.build_num

\* whether the sort of line 72 evaluates -i32::MIN: the key is computed for
\* the elements a comparison reads, and a slice shorter than 2 is not compared
neg_overflows(s) == Len(s) >= 2 /\ \E i \in 1..Len(s) : s[i].build_num = I32Min

\* the longest list of the model
MaxLen == IF MaxBuilds > MaxResponse THEN MaxBuilds ELSE MaxResponse

\* the permutations of 1..n, for the lengths of the model
PermsOfLen ==
    [n \in 0..MaxLen |->
        {p \in [1..n -> 1..n] : \A i, j \in 1..n : p[i] = p[j] => i = j}]
Perms(n) == PermsOfLen[n]

\* slice::sort_unstable_by_key, keys[i] being the key of s[i]: the slice in
\* nondecreasing key order; the order of elements with equal keys is not
\* specified, so every such order is an outcome
sort_unstable_by_key(s, keys) ==
    {[i \in 1..Len(s) |-> s[p[i]]] : p \in
        {q \in Perms(Len(s)) :
            \A i, j \in 1..Len(s) : i < j => keys[q[i]] <= keys[q[j]]}}

\* the sort of line 72
sort_descending(s) == sort_unstable_by_key(s, [i \in 1..Len(s) |-> neg_key(s[i])])

\* the fold of lines 76-81: push a build unless acc holds one of its branch
RECURSIVE fold_dedup(_, _)
fold_dedup(acc, s) ==
    IF s = <<>> THEN acc
    ELSE LET build == Head(s)
         IN fold_dedup(
                IF \E i \in 1..Len(acc) : acc[i].branch = build.branch
                THEN acc ELSE Append(acc, build),
                Tail(s))

\* line 83 without the lookup: every build is kept
filter_local_all(d, s) == s

\* the filter of line 83
RECURSIVE filter_local(_, _)
filter_local(d, s) ==
    IF s = <<>> THEN <<>>
    ELSE (IF find_branch_is_ok(d, Head(s).branch) THEN <<Head(s)>> ELSE <<>>)
            \o filter_local(d, Tail(s))

\* line 86 left out: the order of the dedup pass is returned
sort_ascending_skipped(s) == {s}

\* the sort of line 86
sort_ascending(s) == sort_unstable_by_key(s, [i \in 1..Len(s) |-> num_key(s[i])])

---------------------------------------------------------------------------
(* print_builds *)

\* lines 92-97 with a width of 0 for an empty list in place of the panic
longest_branch_or_zero(s) ==
    IF s = <<>> THEN Some(0)
    ELSE Some(CHOOSE n \in {Len(s[i].branch) : i \in 1..Len(s)} :
                 \A i \in 1..Len(s) : Len(s[i].branch) <= n)

\* lines 92-97: the length of the longest branch name, None on an empty list
longest_branch(s) ==
    IF s = <<>> THEN Nothing
    ELSE Some(CHOOSE n \in {Len(s[i].branch) : i \in 1..Len(s)} :
                 \A i \in 1..Len(s) : Len(s[i].branch) <= n)

\* pad: n spaces before s
RECURSIVE pad(_, _)
pad(s, n) == IF n = 0 THEN s ELSE " " \o pad(s, n - 1)

\* Outcome::failed taking every red outcome for a failure
failed_or_red(o) == o \in {"Failed", "Timedout", "InfrastructureFail"}

\* Outcome::failed
failed(o) == o = "Failed"

\* Outcome::term_string: the label and its colour
term_string(o) ==
    CASE o = "Retried"            -> [text |-> "retried", color |-> "none"]
      [] o = "Canceled"           -> [text |-> "canceled", color |-> "none"]
      [] o = "InfrastructureFail" -> [text |-> "infrastructure fail", color |-> "red"]
      [] o = "Timedout"           -> [text |-> "timeout", color |-> "red"]
      [] o = "NotRun"             -> [text |-> "not run", color |-> "none"]
      [] o = "Running"            -> [text |-> "running", color |-> "blue"]
      [] o = "Failed"             -> [text |-> "failed", color |-> "red"]
      [] o = "Queued"             -> [text |-> "queued", color |-> "none"]
      [] o = "Scheduled"          -> [text |-> "scheduled", color |-> "magenta"]
      [] o = "NotRunning"         -> [text |-> "not running", color |-> "none"]
      [] o = "NoTests"            -> [text |-> "no tests", color |-> "none"]
      [] o = "Fixed"              -> [text |-> "ok", color |-> "green"]
      [] o = "Success"            -> [text |-> "ok", color |-> "green"]

digit(d) ==
    CASE d = 0 -> "0" [] d = 1 -> "1" [] d = 2 -> "2" [] d = 3 -> "3" [] d = 4 -> "4"
      [] d = 5 -> "5" [] d = 6 -> "6" [] d = 7 -> "7" [] d = 8 -> "8" [] d = 9 -> "9"

\* the decimal digits of a number n <= 0, most significant first
RECURSIVE digits_of_nonpositive(_)
digits_of_nonpositive(n) ==
    LET d == (10 - (n % 10)) % 10
        q == (n + d) \div 10
    IN (IF q = 0 THEN "" ELSE digits_of_nonpositive(q)) \o digit(d)

\* format!("{}", n) of an i32
format_i32(n) ==
    IF n < 0 THEN "-" \o digits_of_nonpositive(n) ELSE digits_of_nonpositive(-n)

\* lines 112-122: the text after the outcome
build_num_text(build) ==
    IF build.outcome = None THEN ""
    ELSE IF failed(build.outcome) THEN format_i32(build.build_num) ELSE ""

\* lines 104-133: the line of one build, field by field
line_of(build, len, cur) ==
    [branch       |-> pad(build.branch, len - Len(build.branch)),
     branch_color |-> IF cur = build.branch THEN "magenta" ELSE "none",
     outcome      |-> IF build.outcome = None THEN "no outcome (yet)"
                      ELSE term_string(build.outcome).text,
     outcome_color |-> IF build.outcome = None THEN "none"
                       ELSE term_string(build.outcome).color,
     build_num    |-> build_num_text(build)]

---------------------------------------------------------------------------
(* main *)

\* inputs of a whole run
Argvs == {<<>>, <<"--token", "flagtoken">>, <<"--help">>, <<"--version">>, <<"--bogus">>}
EnvTokens == {None, "NotUnicode", "envtoken"}
RunOutcomes == {"Failed"}
RunNums == {I32Min, 9}
Responses ==
    {[status |-> e, body |-> <<>>] : e \in {"NetworkError", "DecodeError"}}
        \cup {[status |-> "Ok", body |-> b] :
                 b \in SeqUpTo(TryBuild(LocalNames, RunNums, RunOutcomes), MaxResponse)}

\* Cli::from_args, lines 8-16 and 22: the parsed Cli; the help or version
\* text on stdout and status 0 where the command line asks for it; a usage
\* error and status 1 where the command line does not parse
from_args(a) ==
    CASE a = <<>>          -> [kind |-> "Cli", token |-> None]
      [] a = <<"--help">>    -> [kind |-> "HelpDisplayed", token |-> None]
      [] a = <<"--version">> -> [kind |-> "VersionDisplayed", token |-> None]
      [] Len(a) = 2 /\ a[1] = "--token" -> [kind |-> "Cli", token |-> a[2]]
      [] OTHER               -> [kind |-> "UsageError", token |-> None]

\* lines 24-30 with an empty token in place of the panic
resolve_token_or_empty(flag, env) ==
    IF flag # None THEN Some(flag)
    ELSE IF env \in {None, "NotUnicode"} THEN Some("") ELSE Some(env)

\* lines 24-30: the flag, else the environment variable, else a panic
resolve_token(flag, env) ==
    IF flag # None THEN Some(flag)
    ELSE IF env \in {None, "NotUnicode"} THEN Nothing ELSE Some(env)

\* the process ends with status c
Exit(c, msg) == pc' = "exit" /\ exit_code' = Some(c) /\ stderr' = msg
\* the process goes on to statement p
Goto(p) == pc' = p /\ UNCHANGED <<exit_code, stderr>>

Init ==
    /\ pc = "from_args"
    /\ argv \in Argvs
    /\ args_token = None
    /\ env_token \in EnvTokens
    /\ overflow_checks \in BOOLEAN
    /\ cwd \in {d \in WorkDirs : WorkDir(d)}
    /\ invoked_in_repo = cwd.exists
    /\ token = None
    /\ requests = 0
    /\ resp = Nothing
    /\ builds = <<>>
    /\ sorted_desc = <<>>
    /\ deduped = <<>>
    /\ selection = <<>>
    /\ length = 0
    /\ current_branch = None
    /\ cursor = 1
    /\ stdout = <<>>
    /\ stderr = ""
    /\ exit_code = Nothing

\* line 22
FromArgs ==
    /\ pc = "from_args"
    /\ LET r == from_args(argv)
       IN CASE r.kind = "Cli" ->
                 args_token' = r.token /\ Goto("token") /\ UNCHANGED stdout
            [] r.kind \in {"HelpDisplayed", "VersionDisplayed"} ->
                 stdout' = <<r.kind>> /\ Exit(0, "") /\ UNCHANGED args_token
            [] OTHER ->
                 Exit(1, "error: Found argument which wasn't expected")
                    /\ UNCHANGED <<args_token, stdout>>
    /\ UNCHANGED <<argv, env_token, overflow_checks, cwd, invoked_in_repo, token,
                   requests, resp, builds, sorted_desc, deduped, selection, length,
                   current_branch, cursor>>

\* lines 24-36
ResolveToken ==
    /\ pc = "token"
    /\ LET t == resolve_token(args_token, env_token)
       IN IF t = Nothing
          THEN /\ Exit(101, "Missing --token argument, or CIRCLECI_TOKEN environment variable")
               /\ UNCHANGED token
          ELSE token' = t[1] /\ Goto("fetch")
    /\ UNCHANGED <<argv, args_token, env_token, overflow_checks, cwd, invoked_in_repo,
                   requests, resp, builds, sorted_desc, deduped, selection, length,
                   current_branch, cursor, stdout>>

\* line 38: the GET; a transport failure returns Err from main
Fetch ==
    /\ pc = "fetch"
    /\ requests' = requests + 1
    /\ \E r \in Responses :
          IF r.status = "NetworkError"
          THEN Exit(1, "Error: reqwest get") /\ UNCHANGED resp
          ELSE resp' = Some(r) /\ Goto("decode")
    /\ UNCHANGED <<argv, args_token, env_token, overflow_checks, cwd, invoked_in_repo, token,
                   builds, sorted_desc, deduped, selection, length, current_branch,
                   cursor, stdout>>

\* lines 40-45: decode the body, which consumes the response, and drop the
\* builds without a branch
Decode ==
    /\ pc = "decode"
    /\ resp' = Nothing
    /\ IF resp[1].status = "DecodeError"
       THEN Exit(1, "Error: reqwest json") /\ UNCHANGED builds
       ELSE builds' = filter_map_into_build(resp[1].body) /\ Goto("repo")
    /\ UNCHANGED <<argv, args_token, env_token, overflow_checks, cwd, invoked_in_repo, token,
                   requests, sorted_desc, deduped, selection, length, current_branch,
                   cursor, stdout>>

\* line 47
OpenRepository ==
    /\ pc = "repo"
    /\ LET r == RepositoryInit(cwd)
       IN IF r = Nothing
          THEN Exit(1, "Error: git2 init") /\ UNCHANGED cwd
          ELSE cwd' = r[1] /\ Goto("find_builds")
    /\ UNCHANGED <<argv, args_token, env_token, overflow_checks, invoked_in_repo, token,
                   requests, resp, builds, sorted_desc, deduped, selection, length,
                   current_branch, cursor, stdout>>

\* line 49, lines 71-89
FindBuilds ==
    /\ pc = "find_builds"
    /\ IF overflow_checks /\ neg_overflows(builds)
       THEN /\ Exit(101, "attempt to negate with overflow")
            /\ UNCHANGED <<sorted_desc, deduped, selection>>
       ELSE /\ \E s \in sort_descending(builds) :
                 /\ sorted_desc' = s
                 /\ deduped' = fold_dedup(<<>>, s)
                 /\ selection' \in sort_ascending(filter_local(cwd, fold_dedup(<<>>, s)))
            /\ Goto("print_builds")
    /\ UNCHANGED <<argv, args_token, env_token, overflow_checks, cwd, invoked_in_repo, token,
                   requests, resp, builds, length, current_branch, cursor, stdout>>

\* print_builds resolving the current branch inside the loop: the first line
\* is out when the lookup panics
PrintBuildsLateLookup ==
    /\ pc = "print_builds"
    /\ IF longest_branch(selection) = Nothing
       THEN /\ Exit(101, "failed to find longest branch")
            /\ UNCHANGED <<length, current_branch, stdout>>
       ELSE /\ length' = longest_branch(selection)[1]
            /\ \E c \in current_branch_name(cwd) :
                  IF c \in {"Err", None}
                  THEN /\ Exit(101, "failed to find current branch")
                       /\ stdout' = <<line_of(selection[1], length', None)>>
                       /\ UNCHANGED current_branch
                  ELSE current_branch' = c /\ Goto("print_loop") /\ UNCHANGED stdout
    /\ UNCHANGED <<argv, args_token, env_token, overflow_checks, cwd, invoked_in_repo, token,
                   requests, resp, builds, sorted_desc, deduped, selection, cursor>>

\* line 50, lines 92-101: the column width and the current branch, each a
\* panic when there is none
PrintBuilds ==
    /\ pc = "print_builds"
    /\ IF longest_branch(selection) = Nothing
       THEN /\ Exit(101, "failed to find longest branch")
            /\ UNCHANGED <<length, current_branch>>
       ELSE /\ length' = longest_branch(selection)[1]
            /\ \E c \in current_branch_name(cwd) :
                  IF c \in {"Err", None}
                  THEN /\ Exit(101, "failed to find current branch")
                       /\ UNCHANGED current_branch
                  ELSE current_branch' = c /\ Goto("print_loop")
    /\ UNCHANGED <<argv, args_token, env_token, overflow_checks, cwd, invoked_in_repo, token,
                   requests, resp, builds, sorted_desc, deduped, selection, cursor,
                   stdout>>

\* lines 103-134: one iteration of the for loop
PrintLine ==
    /\ pc = "print_loop"
    /\ cursor <= Len(selection)
    /\ stdout' = Append(stdout, line_of(selection[cursor], length, current_branch))
    /\ cursor' = cursor + 1
    /\ UNCHANGED <<pc, argv, args_token, env_token, overflow_checks, cwd, invoked_in_repo,
                   token, requests, resp, builds, sorted_desc, deduped, selection,
                   length, current_branch, stderr, exit_code>>

\* line 52: Ok(())
Return ==
    /\ pc = "print_loop"
    /\ cursor > Len(selection)
    /\ Exit(0, "")
    /\ UNCHANGED <<argv, args_token, env_token, overflow_checks, cwd, invoked_in_repo, token,
                   requests, resp, builds, sorted_desc, deduped, selection, length,
                   current_branch, cursor, stdout>>

Next ==
    \/ FromArgs
    \/ ResolveToken
    \/ Fetch
    \/ Decode
    \/ OpenRepository
    \/ FindBuilds
    \/ PrintBuilds
    \/ PrintLine
    \/ Return

Spec == Init /\ [][Next]_vars

---------------------------------------------------------------------------
(* find_builds alone: main at line 49, with every list of builds up to     *)
(* MaxBuilds, every set of local branches and both build profiles          *)

\* find_builds does not read the outcome of a build: the lists carry none
SelectOutcomes == {}

InitSelect ==
    /\ pc = "find_builds"
    /\ argv = <<"--token", "flagtoken">>
    /\ args_token = "flagtoken"
    /\ env_token = None
    /\ overflow_checks \in BOOLEAN
    /\ cwd \in {d \in WorkDirs : WorkDir(d) /\ d.exists /\ ~d.head_born}
    /\ invoked_in_repo = TRUE
    /\ token = "flagtoken"
    /\ requests = 1
    /\ resp = Nothing
    /\ builds \in SeqUpTo(Build(BranchNames, BuildNums, SelectOutcomes), MaxBuilds)
    /\ sorted_desc = <<>>
    /\ deduped = <<>>
    /\ selection = <<>>
    /\ length = 0
    /\ current_branch = None
    /\ cursor = 1
    /\ stdout = <<>>
    /\ stderr = ""
    /\ exit_code = Nothing

NextSelect == FindBuilds

SpecSelect == InitSelect /\ [][NextSelect]_vars

---------------------------------------------------------------------------
(* print_builds alone: main at line 50, with every selection find_builds   *)
(* can return over every outcome, in every repository that holds its       *)
(* branches                                                                *)

RenderNums == {I32Min, 0, 9, 1234}

\* what find_builds returns: local branches, one build each, ascending
Selections(d) ==
    {s \in SeqUpTo(Build(LocalNames, RenderNums, Outcomes), Cardinality(LocalNames)) :
        /\ \A i \in 1..Len(s) : s[i].branch \in d.branches
        /\ \A i, j \in 1..Len(s) :
              i < j => s[i].branch # s[j].branch /\ s[i].build_num <= s[j].build_num}

InitRender ==
    /\ pc = "print_builds"
    /\ argv = <<"--token", "flagtoken">>
    /\ args_token = "flagtoken"
    /\ env_token = None
    /\ overflow_checks \in BOOLEAN
    /\ cwd \in {d \in WorkDirs : WorkDir(d) /\ d.exists}
    /\ invoked_in_repo = TRUE
    /\ token = "flagtoken"
    /\ requests = 1
    /\ resp = Nothing
    /\ builds = <<>>
    /\ sorted_desc = <<>>
    /\ deduped = <<>>
    /\ selection \in Selections(cwd)
    /\ length = 0
    /\ current_branch = None
    /\ cursor = 1
    /\ stdout = <<>>
    /\ stderr = ""
    /\ exit_code = Nothing

NextRender ==
    \/ PrintBuilds
    \/ PrintLine
    \/ Return

SpecRender == InitRender /\ [][NextRender]_vars

---------------------------------------------------------------------------
(* Properties of find_builds, under SpecSelect *)

\* find_builds has returned
Selected == pc = "print_builds"

\* the build numbers of the builds of branch b in the list handed to find_builds
NumsOf(b) == {builds[k].build_num : k \in {m \in 1..Len(builds) : builds[m].branch = b}}
\* the greatest of a non-empty set of numbers
MaxOf(S) == CHOOSE n \in S : \A m \in S : m <= n
\* the index of the first occurrence of x in s
FirstIndex(s, x) == CHOOSE k \in 1..Len(s) : s[k] = x /\ \A m \in 1..(k - 1) : s[m] # x

\* C1: every local branch that occurs in the input has exactly one build in
\* the output, and its build_num is the greatest build_num of the input builds
\* of that branch; no branch has two builds in the output.
C1_DedupCorrectness ==
    Selected =>
        /\ \A b \in cwd.branches :
              NumsOf(b) # {} =>
                  /\ Cardinality({i \in 1..Len(selection) : selection[i].branch = b}) = 1
                  /\ \A i \in 1..Len(selection) :
                        selection[i].branch = b => selection[i].build_num = MaxOf(NumsOf(b))
        /\ \A i, j \in 1..Len(selection) :
              i # j => selection[i].branch # selection[j].branch

\* C2: every build of the output is on a local branch, and no input build on
\* a branch that is not local is in the output, whatever its build_num.
C2_LocalOnly ==
    Selected =>
        /\ \A i \in 1..Len(selection) : find_branch_is_ok(cwd, selection[i].branch)
        /\ \A k \in 1..Len(builds) :
              builds[k].branch \notin cwd.branches =>
                  \A i \in 1..Len(selection) : selection[i] # builds[k]

\* find_builds returned builds although the build with the greatest number
\* of the input is on a branch that is not local
C2_Witness ==
    /\ Selected
    /\ selection # <<>>
    /\ \E k \in 1..Len(builds) :
          /\ builds[k].branch \notin cwd.branches
          /\ \A m \in 1..Len(builds) : m # k => builds[m].build_num < builds[k].build_num

\* C3: the returned list is ascending by build_num: for all positions i < j,
\* selection[i].build_num <= selection[j].build_num.
C3_AscendingOutput ==
    Selected =>
        \A i, j \in 1..Len(selection) :
            i < j => selection[i].build_num <= selection[j].build_num

\* find_builds returned two builds, in the reverse of the order in which the
\* dedup pass held them
C3_Witness ==
    /\ Selected
    /\ Len(selection) = 2
    /\ Len(deduped) = 2
    /\ selection[1].build_num < selection[2].build_num
    /\ selection[1] = deduped[2]
    /\ selection[2] = deduped[1]

\* C4: the descending sort is stable: builds of equal build_num are, after
\* the sort and the dedup pass, in the order in which the input holds them.
C4_StableTies ==
    Selected =>
        \A i, j \in 1..Len(deduped) :
            (i < j /\ deduped[i].build_num = deduped[j].build_num) =>
                FirstIndex(builds, deduped[i]) < FirstIndex(builds, deduped[j])

\* C10: the key -build_num never overflows, and the sort of line 72 leaves
\* the builds in descending order of build_num, for every i32 build_num.
C10_NegationKey ==
    /\ stderr # "attempt to negate with overflow"
    /\ Selected =>
          \A i, j \in 1..Len(sorted_desc) :
              i < j => sorted_desc[i].build_num >= sorted_desc[j].build_num

---------------------------------------------------------------------------
(* Properties of print_builds, under SpecRender *)

\* the decimal text of the build numbers of RenderNums
Decimal(n) ==
    CASE n = I32Min -> "-2147483648"
      [] n = 0      -> "0"
      [] n = 9      -> "9"
      [] n = 1234   -> "1234"

\* C5: a printed line ends with the build_num of its build if and only if the
\* outcome of the build is failed; every other outcome, and no outcome, gives
\* no number.
C5_FailureNumber ==
    \A i \in 1..Len(stdout) :
        IF selection[i].outcome = "Failed"
        THEN stdout[i].build_num = Decimal(selection[i].build_num)
        ELSE stdout[i].build_num = ""

\* two lines are out: a failed build with its number, a timed-out build
\* without one
C5_Witness ==
    /\ Len(stdout) = 2
    /\ \E i, j \in 1..2 :
          /\ selection[i].outcome = "Failed"
          /\ stdout[i].build_num = "-2147483648"
          /\ selection[j].outcome = "Timedout"
          /\ stdout[j].build_num = ""

---------------------------------------------------------------------------
(* Properties of a whole run, under Spec *)

\* the run has ended with a fatal error
Fatal == pc = "exit" /\ exit_code # Some(0)

\* C6: when print_builds is given no build, the run ends in a fatal error and
\* prints no line; it never ends successfully with nothing printed.
C6_EmptySelectionFatal ==
    [][(pc = "print_builds" /\ selection = <<>>) =>
          (pc' = "exit" /\ exit_code' \notin {Nothing, Some(0)} /\ stdout' = <<>>)]_vars

\* builds were fetched, none was selected, and print_builds panicked
C6_Witness ==
    /\ Fatal
    /\ stderr = "failed to find longest branch"
    /\ builds # <<>>
    /\ selection = <<>>
    /\ stdout = <<>>

\* C7: a run started in a directory that holds no repository ends at the step
\* that opens the repository, and never reaches find_builds or print_builds.
C7_RepositoryNotFoundFatal ==
    ~invoked_in_repo => pc \notin {"find_builds", "print_builds", "print_loop"}

\* neither the flag nor the environment variable supplies a token
NoTokenSupplied == from_args(argv).token = None /\ env_token \in {None, "NotUnicode"}

\* C8, as stated: a run given no token by the flag or the environment ends
\* with a non-zero status before any request; a request is issued only with
\* a token resolved, and at most one per run.
C8_ConfigErrorFirst ==
    /\ requests <= 1
    /\ requests > 0 => token # None
    /\ NoTokenSupplied =>
          /\ requests = 0
          /\ pc \in {"from_args", "token", "exit"}
          /\ pc = "exit" => exit_code # Some(0)

\* C8, amended: a run given no token by the flag or the environment ends
\* before any request, with a non-zero status unless the command line asked
\* for the help or version text, which from_args prints before it exits with
\* status 0; a request is issued only with a token resolved, and at most one
\* per run.
C8_ConfigErrorFirstAmended ==
    /\ requests <= 1
    /\ requests > 0 => token # None
    /\ NoTokenSupplied =>
          /\ requests = 0
          /\ pc \in {"from_args", "token", "exit"}
          /\ pc = "exit" =>
                IF from_args(argv).kind \in {"HelpDisplayed", "VersionDisplayed"}
                THEN exit_code = Some(0)
                ELSE exit_code # Some(0)

\* a run without flag and variable has ended
C8_Witness ==
    /\ argv = <<>>
    /\ env_token = None
    /\ Fatal
    /\ requests = 0
    /\ stderr = "Missing --token argument, or CIRCLECI_TOKEN environment variable"

\* C9: a run that ends in a fatal error has printed no line; lines are out
\* only once the checks of print_builds have passed.
C9_NoPartialOutput ==
    /\ Fatal => stdout = <<>>
    /\ stdout # <<>> => (pc = "print_loop" \/ (pc = "exit" /\ exit_code = Some(0)))

\* print_builds had builds to print and panicked on the current branch
C9_Witness ==
    /\ Fatal
    /\ stderr = "failed to find current branch"
    /\ selection # <<>>
    /\ stdout = <<>>

====
